---- MODULE Spec2Model ----
(***************************************************************************)
(* Model of the longqc workflow (wf/__init__.py): four tasks, each a       *)
(* wrapper around one external process, run in a fixed order.              *)
(*                                                                         *)
(* Python values are records [t, v]: t is the runtime type, v the number   *)
(* (floats are held in tenths, so 25.0 is [t |-> "float", v |-> 250]).     *)
(* Paths, command-line words and messages are strings.                     *)
(***************************************************************************)
EXTENDS Integers, Sequences, FiniteSets, TLC

VARIABLES
    cwd,            \* working directory of the tasks (Path.resolve() base)
    read,           \* LatchFile handed to longqc
    sample_name,    \* str handed to longqc
    args,           \* the optional keyword arguments as the caller gave them
    pc,             \* position in the body of longqc
    prefilt,        \* local of longqc
    trimmed,        \* local of longqc
    final_trimmed,  \* local of longqc
    postfilt,       \* local of longqc
    calls,          \* external processes started so far, in order
    messages,       \* latch.message(...) calls so far, in order
    disk,           \* path -> what the file or directory holds
    raised,         \* the exception that left longqc, or NoException
    result          \* the list longqc returned, or << >>

vars == << cwd, read, sample_name, args, pc, prefilt, trimmed, final_trimmed,
           postfilt, calls, messages, disk, raised, result >>

-----------------------------------------------------------------------------
(* Bounds of the model *)

MaxFloatSteps == 1
MaxLengthSteps == 1
MaxExitCode == 1

-----------------------------------------------------------------------------
(* Python values *)

None == [t |-> "NoneType", v |-> 0]
Absent == [t |-> "absent", v |-> 0]        \* keyword argument not passed
PyFloat(tenths) == [t |-> "float", v |-> tenths]
PyInt(n) == [t |-> "int", v |-> n]

FloatVals == { PyFloat(75 * i) : i \in 1..MaxFloatSteps }
IntVals == { PyInt(1000 * i) : i \in 1..MaxLengthSteps }

NoHandle == [kind |-> "unset", local_path |-> "", remote_path |-> ""]
NoException == [type |-> "none", msg |-> ""]

LatchFile(path, remote) ==
    [kind |-> "LatchFile", local_path |-> path, remote_path |-> remote]
LatchDir(path, remote) ==
    [kind |-> "LatchDir", local_path |-> path, remote_path |-> remote]

Digit(d) == SubSeq("0123456789", d + 1, d + 1)

RECURSIVE StrInt(_)
StrInt(n) == IF n < 10 THEN Digit(n) ELSE StrInt(n \div 10) \o Digit(n % 10)

\* str(x) for the values the filter parameters take
Str(x) ==
    CASE x.t = "int" -> StrInt(x.v)
      [] x.t = "float" -> StrInt(x.v \div 10) \o "." \o StrInt(x.v % 10)
      [] OTHER -> "None"

\* sub in str
Contains(sub, str) ==
    \E i \in 1..(Len(str) - Len(sub) + 1) :
        SubSeq(str, i, i + Len(sub) - 1) = sub

RECURSIVE JoinWith(_, _)
JoinWith(sep, words) ==
    IF words = << >> THEN ""
    ELSE IF Len(words) = 1 THEN words[1]
    ELSE words[1] \o sep \o JoinWith(sep, Tail(words))

\* ' '.join(cmd)
Join(words) == JoinWith(" ", words)

\* repr of a list of str, as CalledProcessError prints its cmd
Repr(words) ==
    "[" \o JoinWith(", ", [i \in 1..Len(words) |-> "'" \o words[i] \o "'"]) \o "]"

\* Path(name).resolve() for a relative name
Resolve(dir, name) == dir \o "/" \o name

\* the file system after path p is given content c
Write(d, p, c) == [q \in (DOMAIN d) \cup {p} |-> IF q = p THEN c ELSE d[q]]

-----------------------------------------------------------------------------
(* subprocess.run *)

\* how an external process can end: an exit code, or it could not be started
Outcomes ==
    { [kind |-> "exit", code |-> c] : c \in 0..MaxExitCode }
        \cup { [kind |-> "oserror", code |-> -1] }

\* subprocess.run(cmd, check=check): what the call does for outcome o
SubprocessRun(check, o) ==
    IF o.kind = "oserror" THEN "OSError"
    ELSE IF check /\ o.code # 0 THEN "CalledProcessError"
    ELSE "returned"

\* str(e) of subprocess.CalledProcessError
CalledProcessErrorStr(cmd, o) ==
    "Command '" \o Repr(cmd) \o "' returned non-zero exit status "
        \o StrInt(o.code) \o "."

\* the FileNotFoundError of a command that cannot be started
LaunchError(cmd) ==
    [type |-> "FileNotFoundError",
     msg |-> "[Errno 2] No such file or directory: '" \o cmd[1] \o "'"]

Call(tool, cmd, input, writes, o) ==
    [tool |-> tool, cmd |-> cmd, input |-> input, writes |-> writes,
     outcome |-> o]

-----------------------------------------------------------------------------
(* nanoplot *)

OutputName(rd, sample) ==
    IF Contains("trim", rd.local_path)
    THEN sample \o "_postfilt"
    ELSE sample \o "_prefilt"

NanoplotCmd(rd, output_name) ==
    << "NanoPlot", "--fastq", rd.local_path, "--tsv_stats", "--no_static",
       "--info_in_report", "-o", output_name >>

NanoplotCheck == FALSE

NanoplotError(output_name, e) ==
    [type |-> "error",
     title |-> "NanoPlot error for " \o output_name,
     body |-> "Error surfaced:\n" \o e]

Nanoplot ==
    /\ pc \in {"nanoplot_pre", "nanoplot_post"}
    /\ LET rd == IF pc = "nanoplot_pre" THEN read ELSE final_trimmed
           output_name == OutputName(rd, sample_name)
           output_dir == Resolve(cwd, output_name)
           cmd == NanoplotCmd(rd, output_name)
           handle == LatchDir(output_dir,
                         "latch:///longqc/" \o sample_name \o "/" \o output_name)
       IN  \E o \in Outcomes :
             LET r == SubprocessRun(NanoplotCheck, o)
                 e == CalledProcessErrorStr(cmd, o)
             IN  /\ calls' = Append(calls,
                        Call("NanoPlot", cmd, rd.local_path, output_dir, o))
                 /\ disk' = IF o.kind = "exit" /\ o.code = 0
                            THEN Write(disk, output_dir, "report")
                            ELSE disk
                 /\ messages' = IF r = "CalledProcessError"
                                THEN Append(messages, NanoplotError(output_name, e))
                                ELSE messages
                 /\ raised' = CASE r = "CalledProcessError" ->
                                     [type |-> "RuntimeError",
                                      msg |-> "NanoPlot error: " \o e]
                                [] r = "OSError" -> LaunchError(cmd)
                                [] OTHER -> raised
                 /\ prefilt' = IF r = "returned" /\ pc = "nanoplot_pre"
                               THEN handle ELSE prefilt
                 /\ postfilt' = IF r = "returned" /\ pc = "nanoplot_post"
                                THEN handle ELSE postfilt
                 /\ pc' = IF r # "returned" THEN "raised"
                          ELSE IF pc = "nanoplot_pre" THEN "run_porechop"
                          ELSE "return"
    /\ UNCHANGED << cwd, read, sample_name, args, trimmed, final_trimmed, result >>

-----------------------------------------------------------------------------
(* run_porechop *)

PorechopCmd(rd, output_file) ==
    << "porechop", "-i", rd.local_path, "-o", output_file >>

PorechopCheck == FALSE

PorechopInfo(cmd) ==
    [type |-> "info", title |-> "Porechop command",
     body |-> "Running " \o Join(cmd)]

PorechopError(sample, e) ==
    [type |-> "error",
     title |-> "Porechop error for " \o sample,
     body |-> "Error surfaced:\n" \o e]

RunPorechop ==
    /\ pc = "run_porechop"
    /\ LET output_filename == sample_name \o "_trim.fastq"
           output_file == Resolve(cwd, output_filename)
           cmd == PorechopCmd(read, output_file)
           handle == LatchFile(output_file,
                         "latch:///longqc/" \o sample_name \o "/" \o output_filename)
       IN  \E o \in Outcomes :
             LET r == SubprocessRun(PorechopCheck, o)
                 e == CalledProcessErrorStr(cmd, o)
             IN  /\ calls' = Append(calls,
                        Call("porechop", cmd, read.local_path, output_file, o))
                 /\ disk' = IF o.kind = "exit" /\ o.code = 0
                            THEN Write(disk, output_file, "trimmed")
                            ELSE disk
                 /\ messages' = IF r = "CalledProcessError"
                                THEN messages \o << PorechopInfo(cmd),
                                                    PorechopError(sample_name, e) >>
                                ELSE Append(messages, PorechopInfo(cmd))
                 /\ raised' = CASE r = "CalledProcessError" ->
                                     [type |-> "RuntimeError",
                                      msg |-> "Porechop error: " \o e]
                                [] r = "OSError" -> LaunchError(cmd)
                                [] OTHER -> raised
                 /\ trimmed' = IF r = "returned" THEN handle ELSE trimmed
                 /\ pc' = IF r = "returned" THEN "run_filtlong" ELSE "raised"
    /\ UNCHANGED << cwd, read, sample_name, args, prefilt, final_trimmed,
                    postfilt, result >>

-----------------------------------------------------------------------------
(* run_filtlong *)

\* one "if x is not None: cmd.extend([flag, str(x)])"
Flag(flag, x) == IF x # None THEN << flag, Str(x) >> ELSE << >>

\* the length flag given the quality threshold
FiltlongCmdCopyPaste(rd, p) ==
    << "filtlong" >>
        \o Flag("--keep_percent", p.keep_percent)
        \o Flag("--min_mean_q", p.min_mean_q)
        \o Flag("--min_length", p.min_mean_q)
        \o Flag("--max_length", p.max_length)
        \o Flag("--min_window_q", p.min_window_q)
        \o << rd.local_path >>

FiltlongCmd(rd, p) ==
    << "filtlong" >>
        \o Flag("--keep_percent", p.keep_percent)
        \o Flag("--min_mean_q", p.min_mean_q)
        \o Flag("--min_length", p.min_length)
        \o Flag("--max_length", p.max_length)
        \o Flag("--min_window_q", p.min_window_q)
        \o << rd.local_path >>

\* subprocess.run(_filtlong_cmd, stdout=output), the check argument left out
FiltlongNoCheck == FALSE

FiltlongCheck == TRUE

FiltlongInfo(cmd) ==
    [type |-> "info", title |-> "Filtlong command",
     body |-> "Running " \o Join(cmd)]

FiltlongError(sample, e) ==
    [type |-> "error",
     title |-> "FiltLong error for " \o sample,
     body |-> "Error surfaced:\n" \o e]

\* what the file opened "wb" as the process's stdout can hold afterwards
StdoutContents(o) ==
    IF o.kind = "oserror" THEN {"empty"}
    ELSE IF o.code = 0 THEN {"filtered"}
    ELSE {"empty", "partial"}

\* a tool that is given the output path and creates it itself, on success
FiltlongDiskNoOpen(d, output_file, o) ==
    IF o.kind = "exit" /\ o.code = 0
    THEN { Write(d, output_file, "filtered") }
    ELSE { d }

\* with open(output_file, "wb") as output: subprocess.run(..., stdout=output)
FiltlongDisk(d, output_file, o) ==
    { Write(d, output_file, c) : c \in StdoutContents(o) }

RunFiltlong(p) ==
    /\ pc = "run_filtlong"
    /\ LET output_filename == sample_name \o "_trim_final.fastq"
           output_file == Resolve(cwd, output_filename)
           cmd == FiltlongCmd(trimmed, p)
           handle == LatchFile(output_file,
                         "latch:///longqc/" \o sample_name \o "/" \o output_filename)
       IN  \E o \in Outcomes :
             LET r == SubprocessRun(FiltlongCheck, o)
                 e == CalledProcessErrorStr(cmd, o)
             IN  /\ calls' = Append(calls,
                        Call("filtlong", cmd, trimmed.local_path, output_file, o))
                 /\ disk' \in FiltlongDisk(disk, output_file, o)
                 /\ messages' = IF r = "CalledProcessError"
                                THEN messages \o << FiltlongInfo(cmd),
                                                    FiltlongError(sample_name, e) >>
                                ELSE Append(messages, FiltlongInfo(cmd))
                 /\ raised' = CASE r = "CalledProcessError" ->
                                     [type |-> "RuntimeError",
                                      msg |-> "FiltLong error: " \o e]
                                [] r = "OSError" -> LaunchError(cmd)
                                [] OTHER -> raised
                 /\ final_trimmed' = IF r = "returned" THEN handle
                                     ELSE final_trimmed
                 /\ pc' = IF r = "returned" THEN "nanoplot_post" ELSE "raised"
    /\ UNCHANGED << cwd, read, sample_name, args, prefilt, trimmed, postfilt,
                    result >>

-----------------------------------------------------------------------------
(* longqc *)

DefaultMinMeanQ == 250      \* min_mean_q: float = 25.0
DefaultKeepPercent == 900   \* keep_percent: float = 90.0

Fields == {"min_mean_q", "keep_percent", "min_length", "max_length",
           "min_window_q"}

\* only min_mean_q declared with a default
DefaultOnlyMinMeanQ(f) ==
    CASE f = "min_mean_q" -> PyFloat(DefaultMinMeanQ)
      [] OTHER -> None

\* the declared default of each optional parameter of longqc
Default(f) ==
    CASE f = "min_mean_q" -> PyFloat(DefaultMinMeanQ)
      [] f = "keep_percent" -> PyFloat(DefaultKeepPercent)
      [] OTHER -> None

\* longqc's parameters once the call has bound its arguments
Param(f) == IF args[f] = Absent THEN Default(f) ELSE args[f]

\* the keyword arguments longqc passes to run_filtlong
FiltlongArgs ==
    [min_length |-> Param("min_length"),
     max_length |-> Param("max_length"),
     min_mean_q |-> Param("min_mean_q"),
     min_window_q |-> Param("min_window_q"),
     keep_percent |-> Param("keep_percent")]

LongqcFiltlong == RunFiltlong(FiltlongArgs)

\* the two reports returned in the other order
LongqcResultSwapped == << postfilt, final_trimmed, prefilt >>

LongqcResult == << prefilt, final_trimmed, postfilt >>

LongqcReturn ==
    /\ pc = "return"
    /\ result' = LongqcResult
    /\ pc' = "done"
    /\ UNCHANGED << cwd, read, sample_name, args, prefilt, trimmed,
                    final_trimmed, postfilt, calls, messages, disk, raised >>

-----------------------------------------------------------------------------
(* the calls of longqc the model explores *)

Cwds == {"/root"}
SampleNames == {"SRR19142056", "S1"}
ReadPaths == {"/data/SRR19142056.fastq", "/data/untrimmed.fastq",
              "/root/S1_trim.fastq"}

ArgVals(f) ==
    {Absent, None} \cup
        (IF f \in {"min_length", "max_length"} THEN IntVals ELSE FloatVals)

Init ==
    /\ cwd \in Cwds
    /\ sample_name \in SampleNames
    /\ \E path \in ReadPaths :
          /\ read = LatchFile(path, "latch://" \o path)
          /\ disk = [q \in {path} |-> "raw"]
    /\ args \in { a \in [Fields -> UNION { ArgVals(f) : f \in Fields }] :
                    \A f \in Fields : a[f] \in ArgVals(f) }
    /\ pc = "nanoplot_pre"
    /\ prefilt = NoHandle
    /\ trimmed = NoHandle
    /\ final_trimmed = NoHandle
    /\ postfilt = NoHandle
    /\ calls = << >>
    /\ messages = << >>
    /\ raised = NoException
    /\ result = << >>

Next ==
    \/ Nanoplot
    \/ RunPorechop
    \/ LongqcFiltlong
    \/ LongqcReturn

Spec == Init /\ [][Next]_vars

-----------------------------------------------------------------------------
(* Vocabulary of the properties *)

Exit0(o) == o.kind = "exit" /\ o.code = 0
NonZero(o) == o.kind = "exit" /\ o.code # 0
LaunchFailed(o) == o.kind = "oserror"

CallsOf(tool) == { i \in DOMAIN calls : calls[i].tool = tool }

FlagOrder == << "--keep_percent", "--min_mean_q", "--min_length",
                "--max_length", "--min_window_q" >>
FieldOrder == << "keep_percent", "min_mean_q", "min_length",
                 "max_length", "min_window_q" >>

Positions(cmd, word) == { i \in DOMAIN cmd : cmd[i] = word }

LastMessage == messages[Len(messages)]

-----------------------------------------------------------------------------
(* C1 *)

\* C1: once porechop has exited non-zero, filtlong and the second NanoPlot are
\* never started and longqc ends in a raised error that names Porechop and the
\* sample.
C1_TrimFailureHalts ==
    \A i \in CallsOf("porechop") :
        NonZero(calls[i].outcome) =>
            /\ Len(calls) = i
            /\ CallsOf("filtlong") = {}
            /\ pc = "raised"
            /\ Contains("Porechop", raised.msg)
            /\ Contains(sample_name, raised.msg)

-----------------------------------------------------------------------------
(* C2 *)

ExpectedTools == << "NanoPlot", "porechop", "filtlong", "NanoPlot" >>

\* C2: the processes started are a prefix of NanoPlot(raw), porechop(raw),
\* filtlong(trimmed), NanoPlot(filtered); every process but the last exited 0;
\* and a failed process is the last one, with longqc ended by its error.
C2_FixedOrderFailFast ==
    /\ Len(calls) <= 4
    /\ \A i \in DOMAIN calls :
          /\ calls[i].tool = ExpectedTools[i]
          /\ calls[i].input = IF i <= 2 THEN read.local_path
                              ELSE calls[i - 1].writes
          /\ i < Len(calls) => Exit0(calls[i].outcome)
          /\ ~Exit0(calls[i].outcome) =>
                /\ pc = "raised"
                /\ raised # NoException

-----------------------------------------------------------------------------
(* C3 *)

\* C3: the filtlong command is "filtlong", then one flag/value pair for each
\* parameter that is not None and nothing for one that is None, in the order
\* keep_percent, min_mean_q, min_length, max_length, min_window_q, each flag
\* followed by str() of its own parameter, then the input path last.
C3_FiltlongCommand ==
    \A c \in CallsOf("filtlong") :
        LET cmd == calls[c].cmd
            p == FiltlongArgs
            set == { k \in 1..5 : p[FieldOrder[k]] # None }
            at(k) == CHOOSE i \in Positions(cmd, FlagOrder[k]) : TRUE
        IN  /\ cmd[1] = "filtlong"
            /\ cmd[Len(cmd)] = trimmed.local_path
            /\ Len(cmd) = 2 + 2 * Cardinality(set)
            /\ \A k \in 1..5 :
                  Cardinality(Positions(cmd, FlagOrder[k])) =
                      IF k \in set THEN 1 ELSE 0
            /\ \A k \in set :
                  /\ at(k) \in 2..(Len(cmd) - 2)
                  /\ cmd[at(k) + 1] = Str(p[FieldOrder[k]])
            /\ \A k1, k2 \in set : k1 < k2 => at(k1) < at(k2)
            /\ set = {} => cmd = << "filtlong", trimmed.local_path >>
            /\ (p.min_length = PyInt(1000) /\ set = {3}) =>
                  cmd = << "filtlong", "--min_length", "1000",
                           trimmed.local_path >>
            /\ (p.keep_percent = PyFloat(75) /\ p.min_window_q = PyFloat(75)
                    /\ set = {1, 5}) =>
                  cmd = << "filtlong", "--keep_percent", "7.5",
                           "--min_window_q", "7.5", trimmed.local_path >>
            /\ (p.min_mean_q = PyFloat(250) /\ set = {2}) =>
                  cmd = << "filtlong", "--min_mean_q", "25.0",
                           trimmed.local_path >>

\* filtlong was run with the quality threshold None, a length bound set and a
\* window threshold set
C3_Witness ==
    /\ CallsOf("filtlong") # {}
    /\ FiltlongArgs.min_mean_q = None
    /\ FiltlongArgs.keep_percent = None
    /\ FiltlongArgs.min_length # None
    /\ FiltlongArgs.max_length = None
    /\ FiltlongArgs.min_window_q # None

-----------------------------------------------------------------------------
(* C4 *)

NoOptionalGiven == \A f \in Fields : args[f] = Absent

\* C4 as stated: for sample SRR19142056 with no optional argument given, the
\* filtlong command is filtlong --min_mean_q 25.0 <trimmed> and its output is
\* SRR19142056_trim_final.fastq.
C4_OnlyMinMeanQ ==
    (sample_name = "SRR19142056" /\ NoOptionalGiven) =>
        \A c \in CallsOf("filtlong") :
            /\ calls[c].cmd = << "filtlong", "--min_mean_q", "25.0",
                                 Resolve(cwd, "SRR19142056_trim.fastq") >>
            /\ calls[c].writes = Resolve(cwd, "SRR19142056_trim_final.fastq")

\* C4 amended: for sample SRR19142056 with no optional argument given, the
\* filtlong command is filtlong --keep_percent 90.0 --min_mean_q 25.0 <trimmed>
\* (both declared defaults), and its output is SRR19142056_trim_final.fastq.
C4_DeclaredDefaults ==
    (sample_name = "SRR19142056" /\ NoOptionalGiven) =>
        \A c \in CallsOf("filtlong") :
            /\ calls[c].cmd = << "filtlong", "--keep_percent", "90.0",
                                 "--min_mean_q", "25.0",
                                 Resolve(cwd, "SRR19142056_trim.fastq") >>
            /\ calls[c].writes = Resolve(cwd, "SRR19142056_trim_final.fastq")
            /\ Exit0(calls[c].outcome) =>
                  /\ final_trimmed.local_path = calls[c].writes
                  /\ final_trimmed.remote_path =
                        "latch:///longqc/SRR19142056/SRR19142056_trim_final.fastq"

C4_Witness ==
    /\ sample_name = "SRR19142056"
    /\ NoOptionalGiven
    /\ \E c \in CallsOf("filtlong") : Exit0(calls[c].outcome)

-----------------------------------------------------------------------------
(* C5 *)

\* C5: when longqc has returned, its result is the three handles, in order:
\* the directory NanoPlot wrote for the raw read, the file filtlong wrote, the
\* directory NanoPlot wrote for that file.
C5_ResultOrder ==
    pc = "done" =>
        /\ Len(result) = 3
        /\ Len(calls) = 4
        /\ calls[1].tool = "NanoPlot" /\ calls[1].input = read.local_path
        /\ result[1].kind = "LatchDir"
        /\ result[1].local_path = calls[1].writes
        /\ calls[3].tool = "filtlong"
        /\ result[2].kind = "LatchFile"
        /\ result[2].local_path = calls[3].writes
        /\ calls[4].tool = "NanoPlot" /\ calls[4].input = result[2].local_path
        /\ result[3].kind = "LatchDir"
        /\ result[3].local_path = calls[4].writes

\* longqc returned after four processes that all exited 0, the two reports in
\* different directories
C5_Witness ==
    /\ pc = "done"
    /\ \A i \in DOMAIN calls : Exit0(calls[i].outcome)
    /\ result[1] # result[3]

-----------------------------------------------------------------------------
(* C6 *)

-----------------------------------------------------------------------------
(* C7 *)

\* C7: whenever a NanoPlot process did not exit 0, nanoplot reported an error
\* message and longqc ended in a raised error; nanoplot returns a handle only
\* for a process that exited 0.
C7_ReportFailureAborts ==
    \A c \in CallsOf("NanoPlot") :
        ~Exit0(calls[c].outcome) =>
            /\ pc = "raised"
            /\ messages # << >>
            /\ LastMessage.type = "error"
            /\ Contains("NanoPlot", LastMessage.title)
            /\ (c = 1 => prefilt = NoHandle)
            /\ (c = 4 => postfilt = NoHandle)

-----------------------------------------------------------------------------
(* C8 *)

StageSuffix == << "_prefilt", "_trim.fastq", "_trim_final.fastq", "_postfilt" >>

\* C8: the i-th process of a run writes to <cwd>/<sample><suffix of stage i>,
\* and no two processes of a run write to the same path.
C8_DistinctArtifacts ==
    /\ \A i \in DOMAIN calls :
          calls[i].writes = Resolve(cwd, sample_name \o StageSuffix[i])
    /\ \A i, j \in DOMAIN calls : i # j => calls[i].writes # calls[j].writes

-----------------------------------------------------------------------------
(* C9 *)

\* C9: no process is directed to write to the path of the raw read, and the
\* raw read holds what it held at the start.
C9_RawReadImmutable ==
    /\ \A i \in DOMAIN calls : calls[i].writes # read.local_path
    /\ disk[read.local_path] = "raw"

-----------------------------------------------------------------------------
(* C10 *)

FinalPath == Resolve(cwd, sample_name \o "_trim_final.fastq")

\* C10 as stated: <sample>_trim_final.fastq is on disk only as the output of a
\* filtlong process that exited 0.
C10_OnlyAfterExit0 ==
    FinalPath \in DOMAIN disk =>
        \E c \in CallsOf("filtlong") : Exit0(calls[c].outcome)

\* C10 amended: run_filtlong creates or truncates <sample>_trim_final.fastq
\* before the process starts, so the file is on disk after every run of
\* run_filtlong: with the filtered reads when the process exited 0, empty or
\* partial when it failed. A handle to it is returned only when it exited 0.
C10_FileLeftBehind ==
    \A c \in CallsOf("filtlong") :
        /\ calls[c].writes = FinalPath
        /\ FinalPath \in DOMAIN disk
        /\ disk[FinalPath] = "filtered" <=> Exit0(calls[c].outcome)
        /\ ~Exit0(calls[c].outcome) =>
              /\ disk[FinalPath] \in {"empty", "partial"}
              /\ final_trimmed = NoHandle
        /\ LaunchFailed(calls[c].outcome) => disk[FinalPath] = "empty"

C10_Witness ==
    /\ \E c \in CallsOf("filtlong") : NonZero(calls[c].outcome)
    /\ FinalPath \in DOMAIN disk
    /\ disk[FinalPath] = "partial"

====
